---- MODULE Spec2Model ----
(***************************************************************************)
(* Model of arabicnlp/utilities/tags.py: the functions that reduce Arabic  *)
(* TreeBank tags to simpler forms and those that read morphological        *)
(* features off a tag.  Tags are strings; every function is pure, so the   *)
(* state is the tag under inspection, the POS vocabulary in force, the     *)
(* function called last and what that call produced.                       *)
(***************************************************************************)
EXTENDS Integers, Sequences, FiniteSets, TLC

VARIABLES tag, vocab, pc, ret

vars == <<tag, vocab, pc, ret>>

(***************************************************************************)
(* Outcomes of a call: a returned value, Python's None, or a raised        *)
(* IndexError.                                                             *)
(***************************************************************************)
Return(v) == [kind |-> "value", val |-> v]

None == [kind |-> "None", val |-> ""]

IndexError == [kind |-> "IndexError", val |-> ""]

(***************************************************************************)
(* Python string primitives.  Positions are Python's (0-based, negative    *)
(* from the end) in PyIndex and 1-based elsewhere.                         *)
(***************************************************************************)
Char(s, i) == SubSeq(s, i, i)

PyIndex(s, k) ==
    IF k >= 0
    THEN IF k < Len(s) THEN Return(Char(s, k + 1)) ELSE IndexError
    ELSE IF -k <= Len(s) THEN Return(Char(s, Len(s) + k + 1)) ELSE IndexError

StartsWith(s, p) == Len(s) >= Len(p) /\ SubSeq(s, 1, Len(p)) = p

OccursAt(s, p, i) == i >= 1 /\ i + Len(p) - 1 <= Len(s) /\ SubSeq(s, i, i + Len(p) - 1) = p

Contains(s, p) == \E i \in 1..(Len(s) - Len(p) + 1) : OccursAt(s, p, i)

\* position of the leftmost occurrence of p in s, 0 when there is none
Find(s, p) ==
    IF Contains(s, p)
    THEN CHOOSE i \in 1..(Len(s) - Len(p) + 1) :
            OccursAt(s, p, i) /\ \A j \in 1..(i - 1) : ~OccursAt(s, p, j)
    ELSE 0

\* str.split(sep): the pieces between the non-overlapping occurrences of sep,
\* scanned left to right; always at least one piece
RECURSIVE Split(_, _)
Split(s, sep) ==
    LET i == Find(s, sep)
    IN  IF i = 0
        THEN <<s>>
        ELSE <<SubSeq(s, 1, i - 1)>> \o Split(SubSeq(s, i + Len(sep), Len(s)), sep)

Last(seq) == seq[Len(seq)]

Digits == {"0", "1", "2", "3", "4", "5", "6", "7", "8", "9"}

\* start of the leftmost match of [-=][0-9]+ in s, 0 when there is none
NumMatchStart(s) ==
    LET Starts == {i \in 1..(Len(s) - 1) :
                      Char(s, i) \in {"-", "="} /\ Char(s, i + 1) \in Digits}
    IN  IF Starts = {} THEN 0 ELSE CHOOSE i \in Starts : \A j \in Starts : i <= j

\* end of the match of [-=][0-9]+ that starts at i: the digits are taken greedily
RECURSIVE NumMatchEnd(_, _)
NumMatchEnd(s, j) ==
    IF j < Len(s) /\ Char(s, j + 1) \in Digits THEN NumMatchEnd(s, j + 1) ELSE j

\* re.compile(r'[-=][0-9]+').split(s)
RECURSIVE PatternSplit(_)
PatternSplit(s) ==
    LET i == NumMatchStart(s)
    IN  IF i = 0
        THEN <<s>>
        ELSE <<SubSeq(s, 1, i - 1)>>
                \o PatternSplit(SubSeq(s, NumMatchEnd(s, i + 1) + 1, Len(s)))

(***************************************************************************)
(* Static tables of the constants module.                                  *)
(***************************************************************************)
ATB_TO_PENN == [t \in {"NOUN", "PVSUFF_DO:3MS"} |->
                   IF t = "NOUN" THEN "NN" ELSE "PRP"]

ARABIC_VERB_TAGS == {"IV", "PV", "CV"}

ARABIC_POS_TAGS == {"NOUN", "ADJ", "PRON", "DET", "IV", "PV", "CV"}

\* the POS vocabularies the reductions are checked against
Vocabularies == {{"NOUN"}, {"NOUN_PROP", "PROP"}, {"", "NOUN:NOUN", "NOUN-NOUN"}}

(***************************************************************************)
(* Reduction of POS tags and tree labels.                                  *)
(***************************************************************************)
atb_tag_to_penn(t) ==
    IF t \in DOMAIN ATB_TO_PENN THEN Return(ATB_TO_PENN[t]) ELSE None

strip_nums(t) == PatternSplit(t)[1]

strip_dashtags(s) == IF s = "-NONE-" THEN s ELSE Split(Split(s, "-")[1], "=")[1]

\* the first part of under_split that is a POS tag, as Return(part), else None
RECURSIVE FirstOtherTag(_, _, _)
FirstOtherTag(under_split, k, pos_tags) ==
    IF k > Len(under_split) THEN None
    ELSE IF under_split[k] \in pos_tags THEN Return(under_split[k])
    ELSE FirstOtherTag(under_split, k + 1, pos_tags)

\* the loop body with the vocabulary test on underscore_tag forgotten
SubTagMatch_Unchecked(sub_tag, pos_tags) ==
    IF sub_tag \in pos_tags THEN Return(sub_tag)
    ELSE LET under_split == Split(sub_tag, "_")
         IN  IF Len(under_split) > 2
             THEN Return(under_split[1] \o "_" \o under_split[2])
             ELSE FirstOtherTag(under_split, 1, pos_tags)

\* what one pass of the loop body returns for sub_tag, None when it falls through
SubTagMatch(sub_tag, pos_tags) ==
    IF sub_tag \in pos_tags THEN Return(sub_tag)
    ELSE LET under_split == Split(sub_tag, "_")
         IN  IF Len(under_split) > 2
             THEN LET underscore_tag == under_split[1] \o "_" \o under_split[2]
                  IN  IF underscore_tag \in pos_tags THEN Return(underscore_tag) ELSE None
             ELSE FirstOtherTag(under_split, 1, pos_tags)

RECURSIVE ScanSubTags(_, _, _, _)
ScanSubTags(plus_split, k, pos_tags, fallback) ==
    IF k > Len(plus_split) THEN fallback
    ELSE LET m == SubTagMatch(plus_split[k], pos_tags)
         IN  IF m.kind = "value" THEN m.val
             ELSE ScanSubTags(plus_split, k + 1, pos_tags, fallback)

\* strip_morphotags falling back on the tag as given instead of its ':'-cut
strip_morphotags_NoColonCut(t, pos_tags) ==
    ScanSubTags(Split(Split(t, ":")[1], "+"), 1, pos_tags, t)

strip_morphotags(t, pos_tags) ==
    LET cut == Split(t, ":")[1]
    IN  ScanSubTags(Split(cut, "+"), 1, pos_tags, cut)

\* strip_all with the two reductions applied in the wrong order
strip_all_Swapped(t, pos_tags) == strip_dashtags(strip_morphotags(t, pos_tags))

strip_all(t, pos_tags) == strip_morphotags(strip_dashtags(t), pos_tags)

simplify_verb_tag(t, pos_tags) ==
    IF Contains(t, "VB") THEN "VB"
    ELSE IF strip_all(t, pos_tags) \in ARABIC_VERB_TAGS THEN "VB" ELSE t

(***************************************************************************)
(* Extraction of information from a tag.                                   *)
(***************************************************************************)
\* the first '+'-separated part from position k on that contains CASE
RECURSIVE FirstWithCase(_, _)
FirstWithCase(parts, k) ==
    IF k > Len(parts) THEN None
    ELSE IF Contains(parts[k], "CASE") THEN Return(parts[k])
    ELSE FirstWithCase(parts, k + 1)

get_case_from_atb_tag(t) == FirstWithCase(Split(t, "+"), 1)

masc == "Masculine"

fem == "Feminine"

gender(t) ==
    IF StartsWith(t, "IV") /\ Len(t) >= 3
    THEN LET c == PyIndex(t, 3)
         IN  IF c.kind = "IndexError" THEN IndexError
             ELSE IF c.val = "M" THEN Return(masc)
             ELSE IF c.val = "F" THEN Return(fem)
             ELSE None
    ELSE IF StartsWith(t, "CV")
    THEN LET c == PyIndex(t, -2)
         IN  IF c.kind = "IndexError" THEN IndexError
             ELSE IF c.val = "F" THEN Return(fem)
             ELSE IF c.val = "M" THEN Return(masc)
             ELSE None
    ELSE IF StartsWith(t, "PV")
    THEN IF t = "PV+PVSUFF_3MS" THEN Return(masc)
         ELSE IF Contains(t, ":") /\ Contains(Split(t, ":")[2], "M") THEN Return(masc)
         ELSE IF Contains(t, ":") /\ Contains(Split(t, ":")[2], "F") THEN Return(fem)
         ELSE None
    ELSE IF Contains(t, "ADJ") \/ Contains(t, "NOUN")
    THEN IF Contains(t, "FEM") THEN Return(fem) ELSE Return(masc)
    ELSE IF Contains(t, "PRON")
    THEN IF Contains(t, "FEM") THEN Return(fem)
         ELSE IF Contains(t, "PRON_")
         THEN IF Contains(Last(Split(t, "_")), "F") THEN Return(fem) ELSE Return(masc)
         ELSE Return(masc)
    ELSE None

MoodNames == [c \in {"I", "J", "S", "SJ"} |->
                 CASE c = "I" -> "Indicative"
                   [] c = "J" -> "Jussive"
                   [] c = "S" -> "Subjunctive"
                   [] c = "SJ" -> "Subj/Jussive"]

\* mood with the delimiter after MOOD left in the code
mood_KeepDelimiter(t) ==
    IF ~Contains(t, "MOOD") THEN None
    ELSE LET _mood == Last(Split(t, "MOOD"))
         IN  IF _mood \in DOMAIN MoodNames THEN Return(MoodNames[_mood]) ELSE None

mood(t) ==
    IF ~Contains(t, "MOOD") THEN None
    ELSE LET after == Last(Split(t, "MOOD"))
             _mood == SubSeq(after, 2, Len(after))
         IN  IF _mood \in DOMAIN MoodNames THEN Return(MoodNames[_mood]) ELSE None

Definite == "Definite"

Indefinite == "Indefinite"

\* definiteness with the proper-noun test ahead of the INDEF test
definiteness_PropFirst(t) ==
    IF ~Contains(t, "NOUN") THEN None
    ELSE IF Contains(t, "NOUN_PROP") THEN Return(Definite)
    ELSE IF Contains(t, "INDEF") THEN Return(Indefinite)
    ELSE IF Contains(t, "DEF") THEN Return(Definite)
    ELSE IF StartsWith(t, "DET") THEN Return(Definite)
    ELSE IF Contains(t, "POSS") THEN Return(Definite)
    ELSE Return(Indefinite)

definiteness(t) ==
    IF ~Contains(t, "NOUN") THEN None
    ELSE IF Contains(t, "INDEF") THEN Return(Indefinite)
    ELSE IF Contains(t, "NOUN_PROP") THEN Return(Definite)
    ELSE IF Contains(t, "DEF") THEN Return(Definite)
    ELSE IF StartsWith(t, "DET") THEN Return(Definite)
    ELSE IF Contains(t, "POSS") THEN Return(Definite)
    ELSE Return(Indefinite)

person(t) ==
    IF Contains(t, "1") THEN Return(1)
    ELSE IF Contains(t, "2") THEN Return(2)
    ELSE IF Contains(t, "3") THEN Return(3)
    ELSE None

sing == "Singular"

dual == "Dual"

plur == "Plural"

\* {'S': sing, 'D': dual, 'P': plur}.get(_number, None)
VerbNumber(_number) ==
    IF _number = "S" THEN Return(sing)
    ELSE IF _number = "D" THEN Return(dual)
    ELSE IF _number = "P" THEN Return(plur)
    ELSE None

\* {'D': dual, 'P': plur}.get(_number, sing)
PronNumber(_number) ==
    IF _number = "D" THEN Return(dual)
    ELSE IF _number = "P" THEN Return(plur)
    ELSE Return(sing)

\* number reading offset 3 for every person prefix
number_FixedOffset(t) ==
    IF Contains(t, "SG") THEN Return(sing)
    ELSE IF Contains(t, "DU") THEN Return(dual)
    ELSE IF Contains(t, "PL") THEN Return(plur)
    ELSE IF Contains(t, "ADJ") \/ Contains(t, "NOUN") THEN Return(sing)
    ELSE IF StartsWith(t, "IV1") \/ StartsWith(t, "IV2") \/ StartsWith(t, "IV3")
    THEN IF StartsWith(t, "IV2D") THEN Return(dual)
         ELSE LET _number == PyIndex(t, 3)
              IN  IF _number.kind = "IndexError" THEN IndexError
                  ELSE VerbNumber(_number.val)
    ELSE IF StartsWith(t, "CV") \/ StartsWith(t, "PV")
    THEN IF t = "PV_PASS" THEN None
         ELSE LET _number == PyIndex(t, -1)
              IN  IF _number.kind = "IndexError" THEN IndexError
                  ELSE VerbNumber(_number.val)
    ELSE IF Contains(t, "PRON")
    THEN LET _number == PyIndex(t, -1)
         IN  IF _number.kind = "IndexError" THEN IndexError
             ELSE PronNumber(_number.val)
    ELSE None

number(t) ==
    IF Contains(t, "SG") THEN Return(sing)
    ELSE IF Contains(t, "DU") THEN Return(dual)
    ELSE IF Contains(t, "PL") THEN Return(plur)
    ELSE IF Contains(t, "ADJ") \/ Contains(t, "NOUN") THEN Return(sing)
    ELSE IF StartsWith(t, "IV1") \/ StartsWith(t, "IV2") \/ StartsWith(t, "IV3")
    THEN IF StartsWith(t, "IV2D") THEN Return(dual)
         ELSE LET verb_idx == IF StartsWith(t, "IV1") THEN 3 ELSE 4
                  _number == PyIndex(t, verb_idx)
              IN  IF _number.kind = "IndexError" THEN IndexError
                  ELSE VerbNumber(_number.val)
    ELSE IF StartsWith(t, "CV") \/ StartsWith(t, "PV")
    THEN IF t = "PV_PASS" THEN None
         ELSE LET _number == PyIndex(t, -1)
              IN  IF _number.kind = "IndexError" THEN IndexError
                  ELSE VerbNumber(_number.val)
    ELSE IF Contains(t, "PRON")
    THEN LET _number == PyIndex(t, -1)
         IN  IF _number.kind = "IndexError" THEN IndexError
             ELSE PronNumber(_number.val)
    ELSE None

aspect(t) ==
    IF Contains(t, "CV") THEN Return("CV")
    ELSE IF Contains(t, "PV") THEN Return("PV")
    ELSE IF Contains(t, "IV") THEN Return("IV")
    ELSE None

is_passive(t) == Return(Contains(t, "PASS"))

(***************************************************************************)
(* Inputs: tags are concatenations of at most n tokens of the annotation   *)
(* scheme, so that every marker the rules look for can occur, alone and    *)
(* next to the others.                                                     *)
(***************************************************************************)
RECURSIVE TagsFrom(_, _)
TagsFrom(tokens, n) ==
    IF n = 0 THEN {""}
    ELSE LET shorter == TagsFrom(tokens, n - 1)
         IN  shorter \cup {s \o t : s \in shorter, t \in tokens}

MaxTraceTokens == 5

TraceTokens == {"NP", "SBJ", "-", "=", "1", "2"}

TraceTags == TagsFrom(TraceTokens, MaxTraceTokens)

MaxNormTokens == 4

NormTokens == {"NOUN", "_PROP", "_", "+", ":", "-", "="}

NormTags == TagsFrom(NormTokens, MaxNormTokens)
                \cup {"-NONE-"} \cup {"-NONE-" \o t : t \in NormTokens}
                \cup {t \o "-NONE-" : t \in NormTokens}

MaxGenderTokens == 3

GenderTokens == {"IV", "CV", "PV", "3", "M", "F", "NOUN", "ADJ", "PRON", "FEM", "_", ":"}

GenderTags == TagsFrom(GenderTokens, MaxGenderTokens)
                \cup {"PV+PVSUFF_3MS", "DET+NOUN+CASE_DEF_ACC", "IV3MS+IV+IVSUFF_MOOD:I"}

MaxMoodTokens == 4

MoodTokens == {"IV", "MOOD", ":", "_", "I", "J", "S"}

MoodTags == TagsFrom(MoodTokens, MaxMoodTokens)

MaxDefTokens == 4

DefTokens == {"NOUN", "_PROP", "CASE_", "INDEF", "DEF", "DET", "POSS", "+"}

DefTags == TagsFrom(DefTokens, MaxDefTokens)

MaxNumberTokens == 3

NumberTokens == {"IV1", "IV2", "IV3", "CV", "PV", "PRON", "NOUN", "ADJ",
                 "SG", "DU", "PL", "S", "D", "P", "M"}

NumberTags == TagsFrom(NumberTokens, MaxNumberTokens) \cup {"IV", "PV_PASS"}

(***************************************************************************)
(* One action per function: the call is made on the tag under inspection   *)
(* and its outcome is recorded.                                            *)
(***************************************************************************)
Called(f, outcome) ==
    /\ pc' = f
    /\ ret' = outcome
    /\ UNCHANGED <<tag, vocab>>

CallStripNums == Called("strip_nums", Return(strip_nums(tag)))

CallStripDashtags == Called("strip_dashtags", Return(strip_dashtags(tag)))

CallStripMorphotags == Called("strip_morphotags", Return(strip_morphotags(tag, vocab)))

CallStripAll == Called("strip_all", Return(strip_all(tag, vocab)))

CallSimplifyVerbTag == Called("simplify_verb_tag", Return(simplify_verb_tag(tag, vocab)))

CallAtbTagToPenn == Called("atb_tag_to_penn", atb_tag_to_penn(tag))

CallGetCase == Called("get_case_from_atb_tag", get_case_from_atb_tag(tag))

CallGender == Called("gender", gender(tag))

CallMood == Called("mood", mood(tag))

CallDefiniteness == Called("definiteness", definiteness(tag))

CallPerson == Called("person", person(tag))

CallNumber == Called("number", number(tag))

CallAspect == Called("aspect", aspect(tag))

CallIsPassive == Called("is_passive", is_passive(tag))

InitOn(tags, vocabularies) ==
    /\ tag \in tags
    /\ vocab \in vocabularies
    /\ pc = "start"
    /\ ret = None

\* trace stripping of tree labels
InitTrace == InitOn(TraceTags, {ARABIC_POS_TAGS})

NextTrace == CallStripNums

SpecTrace == InitTrace /\ [][NextTrace]_vars

\* reduction of tags against a POS vocabulary
InitNorm == InitOn(NormTags, Vocabularies)

NextNorm ==
    \/ CallStripDashtags
    \/ CallStripMorphotags
    \/ CallStripAll

SpecNorm == InitNorm /\ [][NextNorm]_vars

\* gender, aspect, voice and Penn category of verbs, nominals and pronouns
InitGender == InitOn(GenderTags, {ARABIC_POS_TAGS})

NextGender ==
    \/ CallGender
    \/ CallAspect
    \/ CallIsPassive
    \/ CallSimplifyVerbTag
    \/ CallAtbTagToPenn

SpecGender == InitGender /\ [][NextGender]_vars

\* mood of verbs
InitMood == InitOn(MoodTags, {ARABIC_POS_TAGS})

NextMood == CallMood

SpecMood == InitMood /\ [][NextMood]_vars

\* definiteness and case of nominals
InitDef == InitOn(DefTags, {ARABIC_POS_TAGS})

NextDef ==
    \/ CallDefiniteness
    \/ CallGetCase

SpecDef == InitDef /\ [][NextDef]_vars

\* number and person
InitNumber == InitOn(NumberTags, {ARABIC_POS_TAGS})

NextNumber ==
    \/ CallNumber
    \/ CallPerson

SpecNumber == InitNumber /\ [][NextNumber]_vars

(***************************************************************************)
(* Properties.                                                             *)
(***************************************************************************)
\* the part of t before its first ':', all of t when it has none
BeforeColon(t) ==
    IF \E i \in 1..Len(t) : Char(t, i) = ":"
    THEN LET i == CHOOSE k \in 1..Len(t) :
                     Char(t, k) = ":" /\ \A j \in 1..(k - 1) : Char(t, j) # ":"
         IN  SubSeq(t, 1, i - 1)
    ELSE t

\* C1: every function is total: no call ends in an error such as an
\* out-of-range character read, whatever the tag (short tags like IV3 included).
C1_NeverRaises == ret.kind # "IndexError"

\* C2: strip_all is idempotent: applying it to its own result, under the same
\* POS vocabulary, gives that result again.
C2_StripAllIdempotent ==
    pc = "strip_all" => strip_all(ret.val, vocab) = ret.val

\* a label with a dash-tag whose first segment was reduced to a POS tag
C2_Witness ==
    /\ pc = "strip_all"
    /\ Contains(tag, "-")
    /\ ret.val \in vocab
    /\ ret.val # ""
    /\ ret.val # strip_dashtags(tag)

\* C3 as stated: whenever strip_morphotags returns a value different from the
\* tag it was given, that value is a member of the POS vocabulary.
C3_ReducedIsInVocabulary ==
    pc = "strip_morphotags" /\ ret.val # tag => ret.val \in vocab

\* C3 amended: whenever strip_morphotags returns a value different from the part
\* of the tag before its first ':' (the tag itself when it has no ':'), that
\* value is a member of the POS vocabulary.
C3_ReducedBeyondColonIsInVocabulary ==
    pc = "strip_morphotags" /\ ret.val # BeforeColon(tag) => ret.val \in vocab

\* a tag with morphological markings that was reduced to one of its sub-tags
C3_Witness ==
    /\ pc = "strip_morphotags"
    /\ Contains(tag, "+")
    /\ Contains(tag, ":")
    /\ ret.val # ""
    /\ ret.val # BeforeColon(tag)

\* the tag ends with '-' or '=' followed by one or more digits, the '-' or '='
\* being at position i
TraceSuffixAt(t, i) ==
    /\ i >= 1
    /\ i < Len(t)
    /\ Char(t, i) \in {"-", "="}
    /\ \A j \in (i + 1)..Len(t) : Char(t, j) \in Digits

\* C4: strip_nums removes only a trailing trace index: a tag that ends with '-'
\* or '=' followed by digits loses exactly that final suffix, and every other
\* tag (an index in the middle, as in NP-1-SBJ, included) is returned unchanged.
C4_OnlyTrailingIndexRemoved ==
    pc = "strip_nums" =>
        /\ \A i \in 1..Len(tag) :
              TraceSuffixAt(tag, i) => ret.val = SubSeq(tag, 1, i - 1)
        /\ (~\E i \in 1..Len(tag) : TraceSuffixAt(tag, i)) => ret.val = tag

\* the text after the last '_' of t, all of t when it has none
FinalSegment(t) ==
    LET Unders == {i \in 1..Len(t) : Char(t, i) = "_"}
    IN  IF Unders = {} THEN t
        ELSE SubSeq(t, (CHOOSE i \in Unders : \A j \in Unders : j <= i) + 1, Len(t))

\* the tag carries a gender marking: FEM, or an M/F letter in a verb prefix or
\* in an agreement suffix code (after a ':', in PVSUFF_3MS, or in the final
\* '_' segment of a PRON_ tag)
HasGenderMarking(t) ==
    \/ Contains(t, "FEM")
    \/ StartsWith(t, "IV") /\ Len(t) >= 4 /\ Char(t, 4) \in {"M", "F"}
    \/ StartsWith(t, "CV") /\ Char(t, Len(t) - 1) \in {"M", "F"}
    \/ Contains(t, "PVSUFF_3MS")
    \/ \E i \in 1..Len(t) : \E j \in (i + 1)..Len(t) :
          Char(t, i) = ":" /\ Char(t, j) \in {"M", "F"}
    \/ /\ Contains(t, "PRON_")
       /\ Contains(FinalSegment(t), "M") \/ Contains(FinalSegment(t), "F")

\* C5: gender returns None for every tag that carries no gender marking,
\* nominal tags such as DET+NOUN+CASE_DEF_ACC included.
C5_NoMarkingNoGender ==
    pc = "gender" /\ ~HasGenderMarking(tag) => ret = None

GenderOfLetter(c) ==
    IF c = "M" THEN Return(masc) ELSE IF c = "F" THEN Return(fem) ELSE None

\* the text between the first ':' of t and the next one (or the end)
SuffixCode(t) == BeforeColon(SubSeq(t, Len(BeforeColon(t)) + 2, Len(t)))

\* the six gender rules of C6, first match wins
GenderByRules(t) ==
    IF StartsWith(t, "IV") /\ Len(t) >= 4 THEN GenderOfLetter(Char(t, 4))
    ELSE IF StartsWith(t, "CV") THEN GenderOfLetter(Char(t, Len(t) - 1))
    ELSE IF StartsWith(t, "PV")
    THEN IF t = "PV+PVSUFF_3MS" THEN Return(masc)
         ELSE IF Contains(t, ":") /\ Contains(SuffixCode(t), "M") THEN Return(masc)
         ELSE IF Contains(t, ":") /\ Contains(SuffixCode(t), "F") THEN Return(fem)
         ELSE None
    ELSE IF Contains(t, "ADJ") \/ Contains(t, "NOUN")
    THEN IF Contains(t, "FEM") THEN Return(fem) ELSE Return(masc)
    ELSE IF Contains(t, "PRON")
    THEN IF Contains(t, "FEM") THEN Return(fem)
         ELSE IF Contains(FinalSegment(t), "F") THEN Return(fem)
         ELSE Return(masc)
    ELSE None

\* C6: gender applies its rules first-match-wins in the order IV prefix (tags of
\* at least 4 characters), CV prefix, PV prefix, ADJ/NOUN, PRON, absent; a tag
\* starting with IV of fewer than 4 characters falls through to the later rules.
C6_GenderRuleOrder == pc = "gender" => ret = GenderByRules(tag)

\* C7: definiteness is absent exactly for tags without NOUN; with NOUN, INDEF
\* gives Indefinite before anything else, then NOUN_PROP, DEF, a DET prefix or
\* POSS give Definite, and a tag with none of these is Indefinite.
C7_DefinitenessRules ==
    pc = "definiteness" =>
        LET noun == Contains(tag, "NOUN")
            indef == Contains(tag, "INDEF")
            marked == \/ Contains(tag, "NOUN_PROP")
                      \/ Contains(tag, "DEF")
                      \/ StartsWith(tag, "DET")
                      \/ Contains(tag, "POSS")
        IN  /\ (ret = None) <=> ~noun
            /\ noun /\ indef => ret = Return(Indefinite)
            /\ noun /\ ~indef /\ marked => ret = Return(Definite)
            /\ noun /\ ~indef /\ ~marked => ret = Return(Indefinite)

\* a proper noun with a determiner whose case marking is indefinite
C7_Witness ==
    /\ pc = "definiteness"
    /\ StartsWith(tag, "DET")
    /\ Contains(tag, "NOUN_PROP")
    /\ Contains(tag, "INDEF")
    /\ ret = Return(Indefinite)

\* the character that number inspects in a verb tag is there
InspectedOffsetExists(t) ==
    /\ StartsWith(t, "IV1") => Len(t) >= 4
    /\ (StartsWith(t, "IV2") \/ StartsWith(t, "IV3")) /\ ~StartsWith(t, "IV2D")
          => Len(t) >= 5

NumberOfLetter(c, otherwise) ==
    CASE c = "S" -> Return(sing)
      [] c = "D" -> Return(dual)
      [] c = "P" -> Return(plur)
      [] OTHER -> otherwise

\* the number rules of C8, first match wins
NumberByRules(t) ==
    CASE Contains(t, "SG") -> Return(sing)
      [] ~Contains(t, "SG") /\ Contains(t, "DU") -> Return(dual)
      [] ~Contains(t, "SG") /\ ~Contains(t, "DU") /\ Contains(t, "PL") -> Return(plur)
      [] OTHER ->
           IF Contains(t, "ADJ") \/ Contains(t, "NOUN") THEN Return(sing)
           ELSE IF \E d \in {"1", "2", "3"} : StartsWith(t, "IV" \o d)
           THEN IF StartsWith(t, "IV2D") THEN Return(dual)
                ELSE IF StartsWith(t, "IV1") THEN NumberOfLetter(Char(t, 4), None)
                ELSE NumberOfLetter(Char(t, 5), None)
           ELSE IF StartsWith(t, "CV") \/ StartsWith(t, "PV")
           THEN IF t = "PV_PASS" THEN None
                ELSE NumberOfLetter(Char(t, Len(t)), None)
           ELSE IF Contains(t, "PRON")
           THEN NumberOfLetter(Char(t, Len(t)), Return(sing))
           ELSE None

\* C8: for every tag whose inspected character exists, number decides
\* first-match-wins: SG, DU, PL substrings; ADJ/NOUN Singular; IV1/IV2/IV3 by
\* the IV2D special case or the character at offset 3 (IV1) or 4 (IV2, IV3);
\* CV/PV by the final character, PV_PASS absent; PRON by the final character
\* with Singular as default; otherwise absent.
C8_NumberRules ==
    pc = "number" /\ InspectedOffsetExists(tag) => ret = NumberByRules(tag)

\* a third-person verb whose number letter sits at offset 4
C8_Witness ==
    /\ pc = "number"
    /\ StartsWith(tag, "IV3M")
    /\ Len(tag) >= 5
    /\ ret = Return(plur)

\* the text after the last occurrence of MOOD in t and the one character that
\* follows it
MoodCode(t) ==
    LET At == {i \in 1..Len(t) : OccursAt(t, "MOOD", i)}
        last == CHOOSE i \in At : \A j \in At : j <= i
    IN  SubSeq(t, last + 5, Len(t))

\* C9: mood is absent for every tag without MOOD; with MOOD, the code that
\* follows MOOD and its one-character delimiter gives Indicative for I, Jussive
\* for J, Subjunctive for S, Subj/Jussive for SJ and absent for anything else.
C9_MoodRules ==
    pc = "mood" =>
        IF \A i \in 1..Len(tag) : ~OccursAt(tag, "MOOD", i)
        THEN ret = None
        ELSE /\ MoodCode(tag) = "I" <=> ret = Return("Indicative")
             /\ MoodCode(tag) = "J" <=> ret = Return("Jussive")
             /\ MoodCode(tag) = "S" <=> ret = Return("Subjunctive")
             /\ MoodCode(tag) = "SJ" <=> ret = Return("Subj/Jussive")
             /\ MoodCode(tag) \notin {"I", "J", "S", "SJ"} <=> ret = None

\* a mood marking whose code has two letters
C9_Witness ==
    /\ pc = "mood"
    /\ Contains(tag, "MOOD:")
    /\ MoodCode(tag) = "SJ"
    /\ ret = Return("Subj/Jussive")

\* C10: strip_morphotags returns either a member of the POS vocabulary or
\* exactly the part of the tag before its first ':', and never a string that
\* contains ':'.
C10_VocabularyOrColonCut ==
    pc = "strip_morphotags" =>
        /\ ret.val \in vocab \/ ret.val = BeforeColon(tag)
        /\ \A i \in 1..Len(ret.val) : Char(ret.val, i) # ":"

\* the tag is itself a vocabulary entry with a ':' in it, and is still cut
C10_Witness ==
    /\ pc = "strip_morphotags"
    /\ tag \in vocab
    /\ Contains(tag, ":")
    /\ ret.val = BeforeColon(tag)

====
